---- MODULE Spec2Model ----
(***************************************************************************)
(* A model of schemamama_postgres (src/src/lib.rs): the PostgresAdapter    *)
(* that records applied migration versions in a metadata table and runs    *)
(* each migration's up/down callback, the version insert/delete and the    *)
(* commit inside one PostgreSQL transaction.                               *)
(*                                                                         *)
(* The database is modelled by what the adapter relies on: a committed     *)
(* catalog and heap, per-connection transactions whose writes stay private *)
(* until commit and are discarded when the Transaction value is dropped,   *)
(* a commit that publishes all of a transaction's writes or, failing, none *)
(* of them, a primary key on version, and writers that wait for a          *)
(* conflicting uncommitted write of another transaction (READ COMMITTED).  *)
(* Every database round trip may also fail with a connection error.        *)
(***************************************************************************)
EXTENDS Integers, Sequences, FiniteSets, TLC

\* The connections (one adapter each: the adapter borrows its Client mutably).
Clients == {1, 2}

\* How many nested applies of a sole adapter are remembered for undoing.
MaxUndo == 2

\* Metadata table names: the default of PostgresAdapter::new and a custom one.
DefaultTable == "schemamama"
CustomTable == "__custom__"
TableNames == {DefaultTable, CustomTable}

\* Statements a migration callback issues, and the registered migrations.
Create(o) == [kind |-> "create", obj |-> o]
Drop(o) == [kind |-> "drop", obj |-> o]
\* A step of the callback's own logic that may make it return Err.
Check == [kind |-> "check", obj |-> "none"]

\* tests.rs FirstMigration: CREATE TABLE first / DROP TABLE first.
FirstMigration ==
    [version |-> 10, up |-> <<Create("first")>>, down |-> <<Drop("first")>>]
\* tests.rs SecondMigration: neither callback implemented (trait defaults).
SecondMigration ==
    [version |-> 20, up |-> <<>>, down |-> <<>>]
\* A migration whose callbacks change the schema and may then return Err.
ThirdMigration ==
    [version |-> 30, up |-> <<Create("third"), Check>>,
                     down |-> <<Drop("third"), Check>>]

Migrations == {FirstMigration, SecondMigration, ThirdMigration}
Versions == {m.version : m \in Migrations}
NoMigration == [version |-> 0, up |-> <<>>, down |-> <<>>]

VARIABLES
    rels,            \* committed catalog: names of the relations that exist
    rows,            \* committed heap of each metadata table, in insertion order
    metadata_table,  \* PostgresAdapter.metadata_table of each adapter
    active,          \* the adapters that exist in this run
    pc,              \* where each adapter is inside its current call
    cur,             \* the call each adapter is in, or returned from last
    ip,              \* index of the next statement of the running callback
    txn,             \* uncommitted writes of each connection's transaction
    res,             \* Result of the last call: pending, Ok, or Err and where
    out,             \* value returned by the last read
    registered,      \* the migrations the caller may pass to the adapter
    wrote,           \* history: did the call in cur change the committed database
    raced,           \* history: did cur overlap another apply of the same version
    undo,            \* history: a sole adapter's applies not yet reverted, each
                     \* with the committed database it started from
    latest           \* history: the call of a sole adapter that committed
                     \* last for each version

vars == <<rels, rows, metadata_table, active, pc, cur, ip, txn, res, out,
          registered, wrote, raced, undo, latest>>
db == <<rels, rows>>

EmptyTxn == [created |-> {}, dropped |-> {}, ins |-> {}, del |-> {}]
NoCall == [op |-> "none", m |-> NoMigration]
Pending == [st |-> "pending", err |-> "none", at |-> "none"]
Ok == [st |-> "ok", err |-> "none", at |-> "none"]
Err(e, where) == [st |-> "err", err |-> e, at |-> where]
NoOut == [opt |-> <<>>, set |-> {}]

\* PostgresAdapter::new / with_metadata_table: construction stores the name
\* and touches nothing in the database.
new(names) ==
    /\ metadata_table = names
    /\ rels = {}
    /\ rows = [t \in TableNames |-> <<>>]
    /\ pc = [c \in Clients |-> "idle"]
    /\ cur = [c \in Clients |-> NoCall]
    /\ ip = [c \in Clients |-> 1]
    /\ txn = [c \in Clients |-> EmptyTxn]
    /\ res = [c \in Clients |-> Pending]
    /\ out = [c \in Clients |-> NoOut]
    /\ wrote = [c \in Clients |-> FALSE]
    /\ raced = [c \in Clients |-> FALSE]
    /\ undo = <<>>
    /\ latest = [v \in Versions |-> "none"]

\* One adapter, or two adapters on two connections, all on the default table.
Init ==
    /\ new([c \in Clients |-> DefaultTable])
    /\ active \in {{1}, Clients}
    /\ registered = Migrations

\* Two adapters on the same database: PostgresAdapter::new on one connection,
\* with_metadata_table(.., "__custom__") on the other.
InitIsolation ==
    /\ new([c \in Clients |-> IF c = 1 THEN DefaultTable ELSE CustomTable])
    /\ active = Clients
    /\ registered \in {{FirstMigration, SecondMigration},
                       {SecondMigration, ThirdMigration}}

----------------------------------------------------------------------------
\* Database primitives

Range(s) == {s[i] : i \in 1..Len(s)}

\* Faulty variant of Table: the statements name the default table whatever the adapter.
Table_Hardcoded(c) == DefaultTable

\* format!(".. {} ..", self.metadata_table): the table every statement names.
Table(c) == metadata_table[c]

RECURSIVE SetToSeq(_)
SetToSeq(S) ==
    IF S = {} THEN <<>>
    ELSE LET x == CHOOSE y \in S : \A z \in S : y <= z
         IN <<x>> \o SetToSeq(S \ {x})

\* The relations connection c sees: committed ones and its own DDL.
View(c) == (rels \ txn[c].dropped) \cup txn[c].created

\* The versions connection c sees in its metadata table.
VisibleRows(c) ==
    (Range(rows[Table(c)]) \ txn[c].del) \cup txn[c].ins

\* Faulty variant of PrimaryKeyViolated: the version column carries no primary key.
PrimaryKey_Unchecked(c, v) == FALSE

\* version BIGINT PRIMARY KEY: an insert of a visible key is rejected.
PrimaryKeyViolated(c, v) == v \in VisibleRows(c)

\* Another transaction holds an uncommitted write that this statement waits for.
DdlBlocked(c, s) ==
    \E d \in Clients \ {c} :
        \/ s.kind = "create" /\ s.obj \in txn[d].created
        \/ s.kind = "drop" /\ s.obj \in txn[d].dropped

InsertBlocked(c, v) ==
    \E d \in Clients \ {c} :
        /\ Table(d) = Table(c)
        /\ v \in txn[d].ins \cup txn[d].del

DeleteBlocked(c, v) ==
    \E d \in Clients \ {c} :
        /\ Table(d) = Table(c)
        /\ v \in txn[d].del

\* The heap after a transaction's deletes and inserts are applied.
RECURSIVE Without(_, _)
Without(s, D) ==
    IF s = <<>> THEN <<>>
    ELSE IF Head(s) \in D THEN Without(Tail(s), D)
         ELSE <<Head(s)>> \o Without(Tail(s), D)

Committed(c) ==
    [rows EXCEPT ![Table(c)] =
        Without(@, txn[c].del) \o SetToSeq(txn[c].ins)]

\* A sole adapter's committed applies are pushed with the database they began
\* from and popped by the commit of the matching revert; any other change of
\* the database, or a push beyond MaxUndo, forgets them.
TrackUndo(c) ==
    undo' =
        IF active # {c} \/ db' = db THEN undo
        ELSE IF pc[c] = "commit" /\ res'[c].st = "ok"
                /\ cur[c].op = "apply_migration" /\ Len(undo) < MaxUndo
             THEN Append(undo, [m |-> cur[c].m, pre |-> db])
        ELSE IF pc[c] = "commit" /\ res'[c].st = "ok"
                /\ cur[c].op = "revert_migration" /\ undo # <<>>
                /\ undo[Len(undo)].m = cur[c].m
             THEN SubSeq(undo, 1, Len(undo) - 1)
        ELSE <<>>

\* The commit of a sole adapter's apply_migration / revert_migration is the
\* latest committed operation on its version.
TrackLatest(c) ==
    latest' =
        IF active = {c} /\ pc[c] = "commit" /\ res'[c].st = "ok"
        THEN [latest EXCEPT ![cur[c].m.version] = cur[c].op]
        ELSE latest

\* Every action ends by noting whether the running call changed the database.
Observe(c) ==
    /\ wrote' = [wrote EXCEPT ![c] = @ \/ (db' # db)]
    /\ UNCHANGED raced
    /\ TrackUndo(c)
    /\ TrackLatest(c)

\* A call that is not apply_migration / revert_migration begins (and ends).
ObserveStart(c) ==
    /\ wrote' = [wrote EXCEPT ![c] = (db' # db)]
    /\ raced' = [raced EXCEPT ![c] = FALSE]
    /\ TrackUndo(c)
    /\ TrackLatest(c)

\* Another adapter is inside the same call on the same metadata table.
Rivals(c, call) ==
    {d \in Clients \ {c} :
        /\ pc[d] # "idle"
        /\ cur[d] = call
        /\ Table(d) = Table(c)}

\* apply_migration / revert_migration of m begins.
ObserveCall(c, call) ==
    /\ wrote' = [wrote EXCEPT ![c] = (db' # db)]
    /\ raced' = [d \in Clients |->
                   IF d = c THEN pc'[c] # "idle" /\ Rivals(c, call) # {}
                   ELSE raced[d] \/ (pc'[c] # "idle" /\ d \in Rivals(c, call))]
    /\ TrackUndo(c)
    /\ TrackLatest(c)

\* A call returns Err: with `?` the Transaction is dropped uncommitted, which
\* rolls it back.
Return(c, r) ==
    /\ pc' = [pc EXCEPT ![c] = "idle"]
    /\ txn' = [txn EXCEPT ![c] = EmptyTxn]
    /\ res' = [res EXCEPT ![c] = r]
    /\ ip' = [ip EXCEPT ![c] = 1]

\* Faulty variant of Fail: the error path commits what the transaction has staged.
Fail_NoRollback(c, e, where) ==
    /\ Return(c, Err(e, where))
    /\ rels' = (rels \ txn[c].dropped) \cup txn[c].created
    /\ rows' = Committed(c)

\* Faulty variant of Fail: the error is swallowed and the call returns Ok(()).
Fail_Swallowed(c, e, where) ==
    /\ Return(c, Ok)
    /\ UNCHANGED <<rels, rows>>

Fail(c, e, where) ==
    /\ Return(c, Err(e, where))
    /\ UNCHANGED <<rels, rows>>

----------------------------------------------------------------------------
\* The migration callbacks (PostgresMigration::up / down) run against the
\* transaction. One step executes the statement at ip[c]; a callback with no
\* statements (the trait default) returns Ok(()) at once.

\* The outcomes statement s can have for connection c: "ok" or an error.
StmtOutcomes(c, s) ==
    CASE s.kind = "check" -> {"ok", "migration"}
      [] s.kind = "create" /\ s.obj \in View(c) -> {"duplicate_table"}
      [] s.kind = "drop" /\ s.obj \notin View(c) -> {"undefined_table"}
      [] OTHER -> {"ok", "connection"}

\* The transaction's writes after statement s succeeded.
StmtEffect(t, s) ==
    CASE s.kind = "create" -> [t EXCEPT !.created = @ \cup {s.obj}]
      [] s.kind = "drop" ->
            IF s.obj \in t.created
            THEN [t EXCEPT !.created = @ \ {s.obj}]
            ELSE [t EXCEPT !.dropped = @ \cup {s.obj}]
      [] OTHER -> t

\* Faulty variant of Execute: the statement runs on the client, outside the transaction.
Execute_Autocommit(c, s) ==
    /\ rels' = IF s.kind = "create" THEN rels \cup {s.obj}
               ELSE IF s.kind = "drop" THEN rels \ {s.obj}
               ELSE rels
    /\ UNCHANGED <<rows, txn>>

\* transaction.execute(..) in a callback: the write is staged in the transaction.
Execute(c, s) ==
    /\ txn' = [txn EXCEPT ![c] = StmtEffect(@, s)]
    /\ UNCHANGED <<rels, rows>>

\* Faulty variant of Callback: a failed statement does not end the call.
Callback_ErrorIgnored(c, stmts, where, next) ==
    /\ pc[c] = where
    /\ \/ /\ Len(stmts) = 0
          /\ pc' = [pc EXCEPT ![c] = next]
          /\ UNCHANGED <<rels, rows, txn, res, ip>>
       \/ /\ Len(stmts) > 0
          /\ ~DdlBlocked(c, stmts[ip[c]])
          /\ \E e \in StmtOutcomes(c, stmts[ip[c]]) :
                IF e = "ok" THEN Execute(c, stmts[ip[c]])
                ELSE UNCHANGED <<rels, rows, txn>>
          /\ IF ip[c] = Len(stmts)
             THEN /\ pc' = [pc EXCEPT ![c] = next]
                  /\ ip' = [ip EXCEPT ![c] = 1]
             ELSE /\ ip' = [ip EXCEPT ![c] = @ + 1]
                  /\ UNCHANGED pc
          /\ UNCHANGED res
    /\ UNCHANGED <<metadata_table, active, registered, cur, out>>
    /\ Observe(c)

Callback(c, stmts, where, next) ==
    /\ pc[c] = where
    /\ \/ /\ Len(stmts) = 0
          /\ pc' = [pc EXCEPT ![c] = next]
          /\ UNCHANGED <<rels, rows, txn, res, ip>>
       \/ /\ Len(stmts) > 0
          /\ ~DdlBlocked(c, stmts[ip[c]])
          /\ "ok" \in StmtOutcomes(c, stmts[ip[c]])
          /\ Execute(c, stmts[ip[c]])
          /\ IF ip[c] = Len(stmts)
             THEN /\ pc' = [pc EXCEPT ![c] = next]
                  /\ ip' = [ip EXCEPT ![c] = 1]
             ELSE /\ ip' = [ip EXCEPT ![c] = @ + 1]
                  /\ UNCHANGED pc
          /\ UNCHANGED res
       \/ /\ Len(stmts) > 0
          /\ ~DdlBlocked(c, stmts[ip[c]])
          /\ \E e \in StmtOutcomes(c, stmts[ip[c]]) \ {"ok"} :
                Fail(c, e, where)
    /\ UNCHANGED <<metadata_table, active, registered, cur, out>>
    /\ Observe(c)

\* Faulty variant of up: a migration without forward logic fails its forward step.
up_DefaultFails(c) ==
    IF cur[c].m.up = <<>>
    THEN /\ pc[c] = "up"
         /\ Fail(c, "migration", "up")
         /\ UNCHANGED <<metadata_table, active, registered, cur, out>>
         /\ Observe(c)
    ELSE Callback(c, cur[c].m.up, "up", "record_version")

up(c) == Callback(c, cur[c].m.up, "up", "record_version")
down(c) == Callback(c, cur[c].m.down, "down", "erase_version")

----------------------------------------------------------------------------
\* The metadata statements, inside the caller's transaction.

\* Faulty variant of record_version: apply_migration goes on to commit without the insert.
record_version_Skipped(c) ==
    /\ pc[c] = "record_version"
    /\ pc' = [pc EXCEPT ![c] = "commit"]
    /\ UNCHANGED <<rels, rows, res, ip, txn>>
    /\ UNCHANGED <<metadata_table, active, registered, cur, out>>
    /\ Observe(c)

\* INSERT INTO <table> (version) VALUES ($1)
record_version(c) ==
    /\ pc[c] = "record_version"
    /\ LET v == cur[c].m.version IN
       \/ Fail(c, "connection", "record_version")
       \/ /\ Table(c) \notin View(c)
          /\ Fail(c, "undefined_table", "record_version")
       \/ /\ Table(c) \in View(c)
          /\ ~InsertBlocked(c, v)
          /\ PrimaryKeyViolated(c, v)
          /\ Fail(c, "unique_violation", "record_version")
       \/ /\ Table(c) \in View(c)
          /\ ~InsertBlocked(c, v)
          /\ ~PrimaryKeyViolated(c, v)
          /\ txn' = [txn EXCEPT ![c].ins = @ \cup {v}]
          /\ pc' = [pc EXCEPT ![c] = "commit"]
          /\ UNCHANGED <<rels, rows, res, ip>>
    /\ UNCHANGED <<metadata_table, active, registered, cur, out>>
    /\ Observe(c)

\* Faulty variant of erase_version: revert_migration goes on to commit without the delete.
erase_version_Skipped(c) ==
    /\ pc[c] = "erase_version"
    /\ pc' = [pc EXCEPT ![c] = "commit"]
    /\ UNCHANGED <<rels, rows, res, ip, txn>>
    /\ UNCHANGED <<metadata_table, active, registered, cur, out>>
    /\ Observe(c)

\* Faulty variant of erase_version: a delete that matches no record is an error.
erase_version_Strict(c) ==
    /\ pc[c] = "erase_version"
    /\ LET v == cur[c].m.version IN
       \/ Fail(c, "connection", "erase_version")
       \/ /\ Table(c) \notin View(c)
          /\ Fail(c, "undefined_table", "erase_version")
       \/ /\ Table(c) \in View(c)
          /\ v \notin VisibleRows(c)
          /\ Fail(c, "not_found", "erase_version")
       \/ /\ Table(c) \in View(c)
          /\ v \in VisibleRows(c)
          /\ ~DeleteBlocked(c, v)
          /\ txn' = [txn EXCEPT ![c].del = @ \cup {v}]
          /\ pc' = [pc EXCEPT ![c] = "commit"]
          /\ UNCHANGED <<rels, rows, res, ip>>
    /\ UNCHANGED <<metadata_table, active, registered, cur, out>>
    /\ Observe(c)

\* Faulty variant of erase_version: the DELETE has no WHERE clause.
erase_version_NoWhere(c) ==
    /\ pc[c] = "erase_version"
    /\ \/ Fail(c, "connection", "erase_version")
       \/ /\ Table(c) \notin View(c)
          /\ Fail(c, "undefined_table", "erase_version")
       \/ /\ Table(c) \in View(c)
          /\ \A v \in VisibleRows(c) : ~DeleteBlocked(c, v)
          /\ txn' = [txn EXCEPT ![c].del = @ \cup VisibleRows(c)]
          /\ pc' = [pc EXCEPT ![c] = "commit"]
          /\ UNCHANGED <<rels, rows, res, ip>>
    /\ UNCHANGED <<metadata_table, active, registered, cur, out>>
    /\ Observe(c)

\* DELETE FROM <table> WHERE version = $1
erase_version(c) ==
    /\ pc[c] = "erase_version"
    /\ LET v == cur[c].m.version IN
       \/ Fail(c, "connection", "erase_version")
       \/ /\ Table(c) \notin View(c)
          /\ Fail(c, "undefined_table", "erase_version")
       \/ /\ Table(c) \in View(c)
          /\ ~DeleteBlocked(c, v)
          /\ txn' = [txn EXCEPT ![c].del = @ \cup ({v} \cap VisibleRows(c))]
          /\ pc' = [pc EXCEPT ![c] = "commit"]
          /\ UNCHANGED <<rels, rows, res, ip>>
    /\ UNCHANGED <<metadata_table, active, registered, cur, out>>
    /\ Observe(c)

\* transaction.commit(): the transaction's writes become the committed state
\* together, or the commit fails and none of them does.
commit(c) ==
    /\ pc[c] = "commit"
    /\ \/ Fail(c, "connection", "commit")
       \/ /\ rels' = (rels \ txn[c].dropped) \cup txn[c].created
          /\ rows' = Committed(c)
          /\ Return(c, Ok)
    /\ UNCHANGED <<metadata_table, active, registered, cur, out>>
    /\ Observe(c)

\* client.transaction() on entry to apply_migration / revert_migration.
transaction(c, op, m, first) ==
    /\ pc[c] = "idle"
    /\ cur' = [cur EXCEPT ![c] = [op |-> op, m |-> m]]
    /\ out' = [out EXCEPT ![c] = NoOut]
    /\ \/ /\ pc' = [pc EXCEPT ![c] = first]
          /\ res' = [res EXCEPT ![c] = Pending]
          /\ txn' = [txn EXCEPT ![c] = EmptyTxn]
          /\ ip' = [ip EXCEPT ![c] = 1]
          /\ UNCHANGED <<rels, rows>>
       \/ Fail(c, "connection", "transaction")
    /\ UNCHANGED <<metadata_table, active, registered>>
    /\ ObserveCall(c, [op |-> op, m |-> m])

\* Adapter::apply_migration: transaction, up, record_version, commit.
apply_migration(c) ==
    \/ \E m \in registered : transaction(c, "apply_migration", m, "up")
    \/ /\ cur[c].op = "apply_migration"
       /\ (up(c) \/ record_version(c) \/ commit(c))

\* Adapter::revert_migration: transaction, down, erase_version, commit.
revert_migration(c) ==
    \/ \E m \in registered : transaction(c, "revert_migration", m, "down")
    \/ /\ cur[c].op = "revert_migration"
       /\ (down(c) \/ erase_version(c) \/ commit(c))

----------------------------------------------------------------------------
\* Statements the adapter runs on the client itself (autocommit).

\* CREATE TABLE IF NOT EXISTS <table> (version BIGINT PRIMARY KEY)
CreateTableIfNotExists(t) == rels \cup {t}

\* Faulty variant of setup_schema: CREATE TABLE without IF NOT EXISTS.
setup_schema_NoIfNotExists(c) ==
    /\ pc[c] = "idle"
    /\ cur' = [cur EXCEPT ![c] = [op |-> "setup_schema", m |-> NoMigration]]
    /\ out' = [out EXCEPT ![c] = NoOut]
    /\ \/ Fail(c, "connection", "setup_schema")
       \/ /\ Table(c) \in rels
          /\ Fail(c, "duplicate_table", "setup_schema")
       \/ /\ Table(c) \notin rels
          /\ rels' = rels \cup {Table(c)}
          /\ UNCHANGED rows
          /\ Return(c, Ok)
    /\ UNCHANGED <<metadata_table, active, registered>>
    /\ ObserveStart(c)

setup_schema(c) ==
    /\ pc[c] = "idle"
    /\ cur' = [cur EXCEPT ![c] = [op |-> "setup_schema", m |-> NoMigration]]
    /\ out' = [out EXCEPT ![c] = NoOut]
    /\ \/ Fail(c, "connection", "setup_schema")
       \/ /\ rels' = CreateTableIfNotExists(Table(c))
          /\ UNCHANGED rows
          /\ Return(c, Ok)
    /\ UNCHANGED <<metadata_table, active, registered>>
    /\ ObserveStart(c)

\* ORDER BY version DESC: the rows sorted by decreasing version.
RECURSIVE InsertDesc(_, _)
InsertDesc(x, s) ==
    IF s = <<>> THEN <<x>>
    ELSE IF x >= Head(s) THEN <<x>> \o s
         ELSE <<Head(s)>> \o InsertDesc(x, Tail(s))

\* Faulty variant of OrderByVersionDesc: the query has no ORDER BY (heap order).
OrderBy_Missing(s) == s

RECURSIVE OrderByVersionDesc(_)
OrderByVersionDesc(s) ==
    IF s = <<>> THEN <<>>
    ELSE InsertDesc(Head(s), OrderByVersionDesc(Tail(s)))

\* LIMIT 1, then row.iter().next(): the first row if there is one.
Limit1(s) == IF s = <<>> THEN <<>> ELSE <<Head(s)>>

\* SELECT version FROM <table> ORDER BY version DESC LIMIT 1
LatestVersion(t) == Limit1(OrderByVersionDesc(rows[t]))

\* Faulty variant of AllVersions: only the first row of the result is collected.
AllVersions_FirstRow(t) == Range(Limit1(rows[t]))

\* SELECT version FROM <table>, collected into a BTreeSet.
AllVersions(t) == Range(rows[t])

\* Faulty variant of Read: a missing metadata table reads as an empty one.
Read_MissingIsEmpty(c, op, result) ==
    /\ pc[c] = "idle"
    /\ cur' = [cur EXCEPT ![c] = [op |-> op, m |-> NoMigration]]
    /\ \/ /\ out' = [out EXCEPT ![c] = NoOut]
          /\ Fail(c, "connection", op)
       \/ /\ out' = [out EXCEPT ![c] = result]
          /\ Return(c, Ok)
          /\ UNCHANGED <<rels, rows>>
    /\ UNCHANGED <<metadata_table, active, registered>>
    /\ ObserveStart(c)

Read(c, op, result) ==
    /\ pc[c] = "idle"
    /\ cur' = [cur EXCEPT ![c] = [op |-> op, m |-> NoMigration]]
    /\ \/ /\ out' = [out EXCEPT ![c] = NoOut]
          /\ Fail(c, "connection", op)
       \/ /\ Table(c) \notin rels
          /\ out' = [out EXCEPT ![c] = NoOut]
          /\ Fail(c, "undefined_table", op)
       \/ /\ Table(c) \in rels
          /\ out' = [out EXCEPT ![c] = result]
          /\ Return(c, Ok)
          /\ UNCHANGED <<rels, rows>>
    /\ UNCHANGED <<metadata_table, active, registered>>
    /\ ObserveStart(c)

current_version(c) ==
    Read(c, "current_version",
         [opt |-> LatestVersion(Table(c)), set |-> {}])

migrated_versions(c) ==
    Read(c, "migrated_versions",
         [opt |-> <<>>, set |-> AllVersions(Table(c))])

----------------------------------------------------------------------------
Next ==
    \/ \E c \in active : setup_schema(c)
    \/ \E c \in active : current_version(c)
    \/ \E c \in active : migrated_versions(c)
    \/ \E c \in active : apply_migration(c)
    \/ \E c \in active : revert_migration(c)

Spec == Init /\ [][Next]_vars

SpecIsolation == InitIsolation /\ [][Next]_vars

TypeOK ==
    /\ rels \subseteq TableNames \cup {"first", "third"}
    /\ \A t \in TableNames : Range(rows[t]) \subseteq Versions
    /\ \A c \in Clients : pc[c] \in
         {"idle", "up", "down", "record_version", "erase_version", "commit"}

----------------------------------------------------------------------------
\* Vocabulary of the properties

Recorded(t) == Range(rows[t])
Version(c) == cur[c].m.version
Applying(c) == cur[c].op = "apply_migration"
Reverting(c) == cur[c].op = "revert_migration"
Failed(c) == pc[c] = "idle" /\ res[c].st = "err"
Succeeded(c) == pc[c] = "idle" /\ res[c].st = "ok"
Creates(m) == {m.up[i].obj : i \in {j \in 1..Len(m.up) : m.up[j].kind = "create"}}
NoDuplicateRows ==
    \A t \in TableNames : \A i, j \in 1..Len(rows[t]) :
        rows[t][i] = rows[t][j] => i = j

\* C1: atomicity of one migration. With every adapter on the one metadata
\* table, in every committed state an object that a migration's forward creates
\* (and its backward drops) exists if and only if the migration's version is
\* recorded: the callback's changes and the version record commit together or
\* not at all, whichever step of apply_migration / revert_migration fails.
C1_Atomic ==
    \A m \in Migrations : \A o \in Creates(m) :
        o \in rels <=> m.version \in Recorded(DefaultTable)

\* A commit failed after the forward's change and the insert were staged,
\* while another migration stays applied.
C1_Witness ==
    \E c \in Clients :
        /\ Applying(c) /\ cur[c].m = ThirdMigration
        /\ res[c] = Err("connection", "commit")
        /\ "third" \notin rels /\ 30 \notin Recorded(DefaultTable)
        /\ "first" \in rels /\ 10 \in Recorded(DefaultTable)

\* C2 as stated: after an apply_migration whose forward logic failed,
\* migrated_versions does not contain the migration's version.
C2_Original ==
    \A c \in Clients :
        (active = {c} /\ Applying(c) /\ Failed(c) /\ res[c].at = "up")
            => Version(c) \notin Recorded(metadata_table[c])

\* C2 amended: an apply_migration whose forward logic failed has changed
\* nothing in the committed database, neither while the forward ran nor by
\* failing: it adds no version record (the version is recorded afterwards only
\* if it was before the call) and none of the forward's partial changes.
C2_AtomicApply ==
    \A c \in Clients :
        (Applying(c) /\ (pc[c] = "up" \/ (Failed(c) /\ res[c].at = "up")))
            => ~wrote[c]

\* The forward created a table and then returned Err; the table is not there.
C2_Witness ==
    \E c \in Clients :
        /\ Applying(c) /\ cur[c].m = ThirdMigration
        /\ res[c] = Err("migration", "up")
        /\ "third" \notin rels /\ 30 \notin Recorded(metadata_table[c])

\* C3: a revert_migration whose backward logic failed has changed nothing in
\* the committed database: with this adapter the only writer, a version that
\* was recorded is still recorded, and the backward's partial changes are not
\* there.
C3_AtomicRevert ==
    /\ [](\A c \in Clients :
            (Reverting(c) /\ (pc[c] = "down" \/ (Failed(c) /\ res[c].at = "down")))
                => ~wrote[c])
    /\ [][\A c \in Clients :
            (Reverting(c) /\ pc[c] = "down" /\ pc'[c] = "idle")
                => /\ rels' = rels
                   /\ Recorded(metadata_table[c])' = Recorded(metadata_table[c])]_vars

\* The backward dropped a table and then returned Err; table and record remain.
C3_Witness ==
    \E c \in Clients :
        /\ Reverting(c) /\ cur[c].m = ThirdMigration
        /\ res[c] = Err("migration", "down")
        /\ "third" \in rels /\ 30 \in Recorded(metadata_table[c])

\* C4: whenever apply_migration or revert_migration returns an error, from
\* whichever step, no step of that call changed the committed schema or the
\* recorded versions, so a retry starts from the state the first attempt saw.
C4_FailureLeavesState ==
    \A c \in Clients :
        ((Applying(c) \/ Reverting(c)) /\ Failed(c)) => ~wrote[c]

\* A revert failed at commit, after the drop and the delete were staged.
C4_Witness ==
    \E c \in Clients :
        /\ Reverting(c) /\ cur[c].m = FirstMigration
        /\ res[c] = Err("connection", "commit")
        /\ "first" \in rels /\ 10 \in Recorded(metadata_table[c])

\* C5 as stated: an apply_migration of a version that is already recorded
\* fails with a duplicate primary key on the version insert (transport errors
\* aside).
C5_Original ==
    \A c \in Clients :
        (/\ active = {c} /\ Applying(c) /\ Failed(c)
         /\ Version(c) \in Recorded(metadata_table[c])
         /\ res[c].err # "connection")
            => res[c] = Err("unique_violation", "record_version")

\* C5 amended: an apply_migration of a version that is already recorded never
\* gets past the version insert and never returns success; when its forward
\* logic succeeds again the insert fails with a duplicate primary key,
\* otherwise the call has failed before the insert with the forward's own error
\* (CREATE TABLE of a table that exists) or a transport error; the metadata
\* table never holds two records of one version.
C5_DuplicateApply ==
    /\ NoDuplicateRows
    /\ \A c \in Clients :
        /\ (Applying(c) /\ pc[c] = "commit")
              => /\ Version(c) \notin Recorded(metadata_table[c])
                 /\ Version(c) \in txn[c].ins
        /\ (Applying(c) /\ Succeeded(c)) => wrote[c]
        /\ res[c].err = "unique_violation" => res[c].at = "record_version"
        /\ (/\ active = {c} /\ Applying(c) /\ Failed(c)
            /\ Version(c) \in Recorded(metadata_table[c])
            /\ res[c].at = "record_version")
              => res[c].err \in {"unique_violation", "connection"}

\* The marker migration applied a second time: rejected at the insert.
C5_Witness ==
    \E c \in Clients :
        /\ Applying(c) /\ cur[c].m = SecondMigration
        /\ res[c] = Err("unique_violation", "record_version")
        /\ rows[metadata_table[c]] = <<20>>

MaxOpt(S) == IF S = {} THEN <<>> ELSE <<CHOOSE x \in S : \A y \in S : y <= x>>

\* C6: in every committed state reached by applies and reverts, whatever the
\* order the versions were inserted in, current_version's query yields the
\* numerically greatest recorded version, the greatest of what
\* migrated_versions' query yields, and nothing exactly when no version is
\* recorded; a current_version call of a sole adapter returned that value.
C6_CurrentVersion ==
    /\ \A t \in TableNames : LatestVersion(t) = MaxOpt(AllVersions(t))
    /\ \A c \in Clients :
        (active = {c} /\ cur[c].op = "current_version" /\ Succeeded(c))
            => out[c].opt = MaxOpt(Recorded(metadata_table[c]))

\* 20 was inserted before 10 and current_version returned 20.
C6_Witness ==
    \E c \in Clients :
        /\ cur[c].op = "current_version" /\ Succeeded(c)
        /\ rows[metadata_table[c]] = <<20, 10>>
        /\ out[c].opt = <<20>>

\* A step of adapter c's setup_schema call.
SetupStep(c) ==
    /\ cur'[c].op = "setup_schema"
    /\ pc[c] = "idle" /\ pc'[c] = "idle"
    /\ <<cur[c], res[c], wrote[c]>>' # <<cur[c], res[c], wrote[c]>>

\* C7: setup_schema is idempotent. It fails only when the connection does,
\* whether or not the metadata table exists; a successful call leaves the
\* catalog with the adapter's metadata table in it (created if it was absent,
\* untouched if present) and no call adds or removes a version row.
C7_IdempotentSetup ==
    /\ [](\A c \in Clients :
            (cur[c].op = "setup_schema" /\ Failed(c)) => res[c].err = "connection")
    /\ [][\A c \in Clients : SetupStep(c) =>
            /\ rows' = rows
            /\ res'[c].st = "ok" => rels' = rels \cup {metadata_table[c]}
            /\ res'[c].st = "err" => rels' = rels]_vars

\* setup_schema succeeded on a table that existed and held a version.
C7_Witness ==
    \E c \in Clients :
        /\ cur[c].op = "setup_schema" /\ Succeeded(c) /\ ~wrote[c]
        /\ metadata_table[c] \in rels
        /\ rows[metadata_table[c]] = <<10>>

\* Adapter c took this step.
Acting(c) ==
    <<pc[c], cur[c], res[c], txn[c], ip[c], out[c], wrote[c]>>'
        # <<pc[c], cur[c], res[c], txn[c], ip[c], out[c], wrote[c]>>

\* C8: custom table isolation. With two adapters constructed with different
\* metadata-table names on one database, a step of one adapter (setup_schema,
\* apply_migration, revert_migration or a read) creates no table and changes no
\* row under any name but its own, so what current_version and
\* migrated_versions yield for the other adapter does not change; the adapter
\* built by new uses "schemamama".
C8_Isolation ==
    /\ [](metadata_table[1] = "schemamama" /\ metadata_table[2] # metadata_table[1])
    /\ [][\A c \in Clients : Acting(c) =>
            \A t \in TableNames \ {metadata_table[c]} :
                /\ rows'[t] = rows[t]
                /\ (t \in rels') = (t \in rels)
                /\ LatestVersion(t)' = LatestVersion(t)
                /\ AllVersions(t)' = AllVersions(t)]_vars

\* Each adapter recorded a different version in its own table.
C8_Witness ==
    /\ Recorded(metadata_table[1]) = {10}
    /\ Recorded(metadata_table[2]) = {20}
    /\ \E c \in Clients : Applying(c) /\ Succeeded(c) /\ Version(c) = 20

\* The commit of adapter c's revert_migration succeeds in this step.
RevertCommits(c) ==
    Reverting(c) /\ pc[c] = "commit" /\ res'[c].st = "ok"

\* C9: apply/revert round trip of a sole adapter. When a successful
\* revert_migration follows the successful apply_migration of the same
\* migration (with only completed round trips in between), the schema and the
\* recorded versions are again what they were before the apply; and after
\* applying V10 (create table first) and then V20 (no-op) to an empty metadata
\* table, current_version is 20 and table first exists, while the state the
\* reverts of 20 and 10 lead back to has no version and no table first.
C9_RoundTrip ==
    /\ [][\A c \in Clients :
            (active = {c} /\ RevertCommits(c) /\ undo # <<>>
             /\ undo[Len(undo)].m = cur[c].m)
                => db' = undo[Len(undo)].pre]_vars
    /\ [](\A i \in 1..Len(undo) :
            /\ undo[i].m.version \notin Range(undo[i].pre[2][DefaultTable])
            /\ Creates(undo[i].m) \cap undo[i].pre[1] = {})
    /\ []((/\ Len(undo) = 2
           /\ undo[1].m = FirstMigration /\ undo[2].m = SecondMigration
           /\ undo[1].pre[2][DefaultTable] = <<>>)
            => /\ LatestVersion(DefaultTable) = <<20>>
               /\ "first" \in rels
               /\ LatestVersion(DefaultTable) # MaxOpt(Range(undo[1].pre[2][DefaultTable]))
               /\ "first" \notin undo[1].pre[1])

\* 10 and 20 were applied to an empty table and 20 has been reverted again.
C9_Witness ==
    \E c \in Clients :
        /\ active = {c} /\ Reverting(c) /\ Succeeded(c) /\ wrote[c]
        /\ cur[c].m = SecondMigration
        /\ Len(undo) = 1 /\ undo[1].m = FirstMigration
        /\ undo[1].pre[2][DefaultTable] = <<>>
        /\ rows[DefaultTable] = <<10>> /\ "first" \in rels

\* Adapters c and d are in, or back from, overlapping apply_migration calls of
\* the same migration on the same metadata table.
Race(c, d) ==
    /\ c # d /\ raced[c] /\ raced[d]
    /\ Applying(c) /\ cur[d] = cur[c]
    /\ metadata_table[c] = metadata_table[d]

\* C10 as stated: of two adapters racing to apply one version the loser fails
\* with a constraint violation (failures of its own logic or transport aside).
C10_Original ==
    \A c, d \in Clients :
        (/\ Race(c, d) /\ Succeeded(c) /\ Failed(d)
         /\ res[d].err \notin {"connection", "migration"})
            => res[d].err = "unique_violation"

\* C10 amended: when two adapters on the same metadata table concurrently
\* apply the same version, under every interleaving at most one of the two
\* transactions commits and the other never returns success: it fails with a
\* duplicate-primary-key error at the version insert if its forward logic got
\* that far, or earlier with the forward logic's own error when the forward
\* collides with what the winner committed (CREATE TABLE of an existing
\* table); the table never holds two records of the version and nothing the
\* loser's forward did is committed.
C10_Race ==
    /\ \A t \in TableNames : \A v \in Versions :
          Cardinality({i \in 1..Len(rows[t]) : rows[t][i] = v}) <= 1
    /\ \A c, d \in Clients : Race(c, d) =>
          /\ ~(Succeeded(c) /\ Succeeded(d))
          /\ ~(wrote[c] /\ wrote[d])
          /\ (Succeeded(c) /\ Failed(d)) =>
                /\ ~wrote[d]
                /\ res[d].at = "record_version"
                      => res[d].err \in {"unique_violation", "connection"}
                /\ res[d].err \notin {"connection", "migration"}
                      => \/ res[d] = Err("unique_violation", "record_version")
                         \/ res[d] = Err("duplicate_table", "up")

\* Both raced to apply the marker migration: one committed, the other's insert
\* was rejected.
C10_Witness ==
    \E c, d \in Clients :
        /\ Race(c, d) /\ cur[c].m = SecondMigration
        /\ Succeeded(c) /\ wrote[c]
        /\ res[d] = Err("unique_violation", "record_version")
        /\ rows[metadata_table[c]] = <<20>>

----------------------------------------------------------------------------
\* Adapter c took this step inside an apply_migration / revert_migration call.
MigrationStep(c) ==
    Acting(c) /\ cur'[c].op \in {"apply_migration", "revert_migration"}

\* The commit of adapter c's running call succeeds in this step.
Commits(c) == pc[c] = "commit" /\ res'[c].st = "ok"

\* C11: each migration commits in its own transaction. No call leaves anything
\* staged for the next one; a step of an apply_migration / revert_migration
\* call other than its successful commit (so every step of a call that fails)
\* leaves the committed database as it is; and for a sole adapter the
\* migrations whose apply returned success earlier stay applied when a later
\* call fails: their versions stay recorded and their tables stay in place.
C11_OwnTransaction ==
    /\ [](\A c \in Clients : pc[c] = "idle" => txn[c] = EmptyTxn)
    /\ [][\A c \in Clients :
            (MigrationStep(c) /\ ~Commits(c)) => db' = db]_vars
    /\ [][\A c \in Clients :
            (active = {c} /\ MigrationStep(c) /\ res'[c].st = "err")
                => undo' = undo]_vars
    /\ [](\A i \in 1..Len(undo) :
            /\ undo[i].m.version \in Recorded(DefaultTable)
            /\ Creates(undo[i].m) \subseteq rels)

\* FirstMigration was applied, then the apply of ThirdMigration failed in its
\* forward logic after CREATE TABLE third: 10 and first stay, third is gone.
C11_Witness ==
    \E c \in Clients :
        /\ active = {c} /\ Applying(c) /\ cur[c].m = ThirdMigration
        /\ res[c] = Err("migration", "up") /\ pc[c] = "idle"
        /\ Len(undo) = 1 /\ undo[1].m = FirstMigration
        /\ rows[DefaultTable] = <<10>>
        /\ "first" \in rels /\ "third" \notin rels

----------------------------------------------------------------------------
\* The tables migration m's backward logic drops.
Drops(m) ==
    {m.down[i].obj : i \in {j \in 1..Len(m.down) : m.down[j].kind = "drop"}}

\* The order in which a call moves through its steps (a return aside).
StepOrder(op) ==
    IF op = "apply_migration"
    THEN {<<"idle", "up">>, <<"up", "record_version">>,
          <<"record_version", "commit">>}
    ELSE IF op = "revert_migration"
    THEN {<<"idle", "down">>, <<"down", "erase_version">>,
          <<"erase_version", "commit">>}
    ELSE {}

\* C12: step ordering inside apply_migration / revert_migration. The
\* transaction is opened first, and a failure to open it returns at once with
\* no callback step taken; the callback runs next, the metadata insert /
\* delete only after the whole callback succeeded, the commit only after both,
\* and all three act on the one transaction: at the insert / delete the
\* callback's writes are staged in it, at the commit so is the insert (or the
\* delete: with no other adapter writing, the version is no longer visible in
\* it). A failed step ends the call with the transaction discarded, so nothing
\* is committed after a failure.
C12_StepOrder ==
    /\ [][\A c \in Clients : pc'[c] # pc[c] =>
            \/ pc'[c] = "idle"
            \/ <<pc[c], pc'[c]>> \in StepOrder(cur'[c].op)]_vars
    /\ [][\A c \in Clients :
            (Acting(c) /\ res'[c].st = "err" /\ res'[c].at = "transaction")
                => pc[c] = "idle" /\ pc'[c] = "idle" /\ ~wrote'[c]]_vars
    /\ [](\A c \in Clients :
            /\ (Applying(c) /\ pc[c] \in {"record_version", "commit"})
                  => Creates(cur[c].m) \subseteq txn[c].created
            /\ (Reverting(c) /\ pc[c] \in {"erase_version", "commit"})
                  => Drops(cur[c].m) \subseteq txn[c].dropped
            /\ (Applying(c) /\ pc[c] = "commit") => Version(c) \in txn[c].ins
            /\ (Reverting(c) /\ pc[c] = "commit")
                  => /\ txn[c].del \subseteq {Version(c)}
                     /\ active = {c} => Version(c) \notin VisibleRows(c)
            /\ res[c].st = "err" => pc[c] = "idle" /\ txn[c] = EmptyTxn)
    /\ [][\A c \in Clients :
            (MigrationStep(c) /\ res'[c].st = "err") => db' = db]_vars

\* ThirdMigration's apply stands before its commit: CREATE TABLE third and the
\* insert of 30 are staged in its transaction and nothing is committed yet.
C12_Witness ==
    \E c \in Clients :
        /\ Applying(c) /\ cur[c].m = ThirdMigration /\ pc[c] = "commit"
        /\ txn[c].created = {"third"} /\ txn[c].ins = {30}
        /\ "third" \notin rels /\ 30 \notin Recorded(Table(c))
        /\ ~wrote[c]

----------------------------------------------------------------------------
\* No other adapter in use writes adapter c's metadata table.
SoleWriter(c) == \A d \in active \ {c} : Table(d) # Table(c)

\* C13 as stated: when apply_migration returns success the version is
\* recorded, and when revert_migration returns success it is not.
C13_Original ==
    [][\A c \in Clients : Commits(c) =>
            /\ Applying(c) => Version(c) \in Recorded(Table(c))'
            /\ Reverting(c) => Version(c) \notin Recorded(Table(c))']_vars

\* C13 amended: no error suppression and no retries. A call returns success
\* only from its successful commit; when apply_migration returns success the
\* version is recorded, and when revert_migration returns success it is not
\* recorded provided no other adapter writes the same metadata table meanwhile;
\* a failure at the transaction, the callback, the insert / delete or the
\* commit ends the call with an error naming that step; and within a call the
\* callback's statements run once each, in order, and the insert / delete is
\* tried once.
C13_NoSuppression ==
    /\ [][\A c \in Clients : Commits(c) =>
            /\ Applying(c) => Version(c) \in Recorded(Table(c))'
            /\ (Reverting(c) /\ SoleWriter(c))
                  => Version(c) \notin Recorded(Table(c))']_vars
    /\ [][\A c \in Clients :
            (MigrationStep(c) /\ res'[c].st = "ok") => pc[c] = "commit"]_vars
    /\ [][\A c \in Clients :
            (MigrationStep(c) /\ pc'[c] = "idle" /\ ~Commits(c))
                => /\ res'[c].st = "err"
                   /\ res'[c].at =
                        IF pc[c] = "idle" THEN "transaction" ELSE pc[c]]_vars
    /\ [][\A c \in Clients : Acting(c) =>
            /\ (pc[c] \in {"up", "down"} /\ pc'[c] = pc[c])
                  => ip'[c] = ip[c] + 1
            /\ pc[c] \in {"record_version", "erase_version"}
                  => pc'[c] \in {"commit", "idle"}
            /\ pc[c] = "commit" => pc'[c] = "idle"]_vars

\* A sole adapter's revert of FirstMigration returned success: 10 is no longer
\* recorded and table first is gone.
C13_Witness ==
    \E c \in Clients :
        /\ SoleWriter(c) /\ Reverting(c) /\ cur[c].m = FirstMigration
        /\ pc[c] = "idle" /\ res[c] = Ok /\ wrote[c]
        /\ 10 \notin Recorded(Table(c)) /\ "first" \notin rels

----------------------------------------------------------------------------
\* C14: meaning of an applied-version record. Starting from an empty metadata
\* table and with one adapter as the only writer, a version is recorded exactly
\* when the call that committed last for it was an apply_migration: some apply
\* of it has committed and no revert of it has committed since.
C14_RecordMeaning ==
    \A c \in Clients : active = {c} =>
        \A v \in Versions :
            (v \in Recorded(Table(c))) <=> (latest[v] = "apply_migration")

\* 10 was applied and reverted again, 20 was applied after that: only 20 is
\* recorded.
C14_Witness ==
    \E c \in Clients :
        /\ active = {c} /\ pc[c] = "idle"
        /\ latest[10] = "revert_migration" /\ latest[20] = "apply_migration"
        /\ latest[30] = "none"
        /\ Recorded(Table(c)) = {20}

----------------------------------------------------------------------------
\* C15: reverting an unrecorded version is not an error. When revert_migration
\* reaches its delete with the metadata table in place and the version not in
\* it, the delete matches no record and the call goes on to the commit (a
\* lost connection aside); when such a call commits it returns success, the
\* rows of every metadata table are what they were, and what the backward logic
\* did is committed: the tables it dropped are gone.
C15_RevertUnrecorded ==
    /\ [][\A c \in Clients :
            (/\ Acting(c) /\ Reverting(c) /\ pc[c] = "erase_version"
             /\ Table(c) \in View(c) /\ Version(c) \notin VisibleRows(c))
                => \/ pc'[c] = "commit" /\ txn'[c] = txn[c]
                   \/ res'[c] = Err("connection", "erase_version")]_vars
    /\ [][\A c \in Clients :
            (RevertCommits(c) /\ Version(c) \notin Recorded(Table(c)))
                => /\ res'[c] = Ok
                   /\ rows' = rows
                   /\ rels' = (rels \ txn[c].dropped) \cup txn[c].created
                   /\ Drops(cur[c].m) \cap rels' = {}]_vars

\* The adapter on the custom table, which never recorded 10, reverted
\* FirstMigration after the other adapter had applied it: table first is
\* dropped, 10 is still recorded under the default name.
C15_Witness ==
    \E c \in Clients :
        /\ Table(c) = CustomTable /\ Reverting(c) /\ Succeeded(c)
        /\ cur[c].m = FirstMigration /\ wrote[c]
        /\ rows[CustomTable] = <<>> /\ "first" \notin rels
        /\ 10 \in Recorded(DefaultTable)

----------------------------------------------------------------------------
\* Adapter c's running call is for a migration implementing neither callback.
Marker(c) == cur[c].m.up = <<>> /\ cur[c].m.down = <<>>

\* C16: marker migrations. For a migration that implements neither callback
\* the forward / backward step of a call succeeds at once and neither stages
\* nor commits anything; the successful commit of its apply_migration changes
\* the database only by appending the version to the adapter's metadata table,
\* that of its revert_migration only by removing the version from it (it is
\* removed whenever no other adapter writes that table); the schema is the
\* same after both.
C16_Marker ==
    /\ [][\A c \in Clients :
            (Acting(c) /\ Marker(c) /\ pc[c] \in {"up", "down"})
                => /\ pc'[c] = IF pc[c] = "up" THEN "record_version"
                               ELSE "erase_version"
                   /\ txn'[c] = txn[c] /\ res'[c] = res[c]
                   /\ db' = db]_vars
    /\ [][\A c \in Clients : (Commits(c) /\ Marker(c)) =>
            /\ rels' = rels
            /\ \A t \in TableNames \ {Table(c)} : rows'[t] = rows[t]
            /\ Applying(c)
                  => rows'[Table(c)] = Append(rows[Table(c)], Version(c))
            /\ Reverting(c)
                  => /\ rows'[Table(c)] \in
                          {rows[Table(c)], Without(rows[Table(c)], {Version(c)})}
                     /\ SoleWriter(c) =>
                          rows'[Table(c)] = Without(rows[Table(c)], {Version(c)})]_vars

\* SecondMigration was applied after FirstMigration and reverted again: each
\* call wrote, the schema still has table first and 10 is still recorded.
C16_Witness ==
    \E c \in Clients :
        /\ Reverting(c) /\ Marker(c) /\ Version(c) = 20
        /\ Succeeded(c) /\ wrote[c]
        /\ latest[20] = "revert_migration"
        /\ rows[Table(c)] = <<10>> /\ "first" \in rels

----------------------------------------------------------------------------
\* Adapter c's last call is a read of the metadata table.
Reading(c) == cur[c].op \in {"current_version", "migrated_versions"}

\* C17: setup is explicit. After construction the database has no table and
\* no record; a metadata table comes into being only in the step of a
\* successful setup_schema of an adapter using that name. While the table
\* does not exist, current_version and migrated_versions return an error and
\* no value, and an apply_migration that reaches its insert fails there, with
\* the transaction discarded and the committed database unchanged; it never
\* gets to its commit.
C17_ExplicitSetup ==
    /\ rels = {} /\ \A t \in TableNames : rows[t] = <<>>
    /\ [][\A t \in TableNames : (t \in rels' /\ t \notin rels) =>
            \E c \in Clients :
                /\ Acting(c) /\ Table(c) = t
                /\ cur'[c].op = "setup_schema" /\ res'[c] = Ok]_vars
    /\ [][\A c \in Clients :
            (Acting(c) /\ Reading(c)' /\ Table(c) \notin rels)
                => res'[c].st = "err" /\ out'[c] = NoOut /\ db' = db]_vars
    /\ [](\A c \in Clients :
            (Reading(c) /\ Succeeded(c)) => Table(c) \in rels)
    /\ [][\A c \in Clients :
            (/\ Acting(c) /\ Applying(c) /\ pc[c] = "record_version"
             /\ Table(c) \notin rels)
                => /\ res'[c].st = "err" /\ res'[c].at = "record_version"
                   /\ pc'[c] = "idle" /\ txn'[c] = EmptyTxn
                   /\ db' = db /\ ~wrote'[c]]_vars
    /\ [](\A c \in Clients :
            (Applying(c) /\ Table(c) \notin rels)
                => pc[c] # "commit" /\ ~Succeeded(c))

\* No setup_schema has succeeded: one adapter's apply of FirstMigration failed
\* at the insert and left no table first, the other's current_version failed.
C17_Witness ==
    \E c, d \in Clients :
        /\ rels = {}
        /\ Applying(c) /\ cur[c].m = FirstMigration
        /\ res[c] = Err("undefined_table", "record_version")
        /\ pc[c] = "idle" /\ ~wrote[c]
        /\ cur[d].op = "current_version"
        /\ res[d] = Err("undefined_table", "current_version")
        /\ out[d] = NoOut

----------------------------------------------------------------------------
\* C18: per-version frame condition. No step of an apply_migration or
\* revert_migration call for version v, in a call that succeeds or in one
\* that fails, changes whether any other version w is recorded in any
\* metadata table; the table's length changes by at most one record, and only
\* in the step that commits the call.
C18_VersionFrame ==
    [][\A c \in Clients : MigrationStep(c) =>
          /\ \A t \in TableNames : \A w \in Versions \ {Version(c)'} :
                (w \in Recorded(t)') = (w \in Recorded(t))
          /\ \A t \in TableNames :
                Len(rows'[t]) \in
                    IF Commits(c) /\ t = Table(c)
                    THEN {Len(rows[t]) - 1, Len(rows[t]), Len(rows[t]) + 1}
                    ELSE {Len(rows[t])}]_vars

\* 20 was reverted out of a table holding 10, 20 and 30: 10 and 30 remain.
C18_Witness ==
    \E c \in Clients :
        /\ Reverting(c) /\ Version(c) = 20 /\ Succeeded(c) /\ wrote[c]
        /\ rows[Table(c)] = <<10, 30>>
        /\ "first" \in rels /\ "third" \in rels

----------------------------------------------------------------------------
\* C19: reads are pure. A current_version or migrated_versions call is one
\* step outside any transaction: it changes neither the schema nor a row and
\* stages nothing. What it returns is determined by the committed rows alone:
\* migrated_versions yields exactly the set of recorded versions, which has one
\* element per row (no duplicates), and current_version the greatest of them;
\* so, no write having happened since a sole adapter's read, the value it got
\* is the value a second call would get now.
C19_PureReads ==
    /\ [][\A c \in Clients : (Acting(c) /\ Reading(c)') =>
            /\ db' = db /\ txn' = txn
            /\ pc[c] = "idle" /\ pc'[c] = "idle"
            /\ ~wrote'[c]
            /\ res'[c] = Ok =>
                 /\ cur'[c].op = "migrated_versions" =>
                       /\ out'[c].set = Recorded(Table(c))
                       /\ Cardinality(out'[c].set) = Len(rows[Table(c)])
                 /\ cur'[c].op = "current_version" =>
                       out'[c].opt = MaxOpt(Recorded(Table(c)))]_vars
    /\ [](\A c \in Clients :
            (active = {c} /\ Reading(c) /\ Succeeded(c)) =>
                /\ cur[c].op = "migrated_versions"
                      => out[c].set = AllVersions(Table(c))
                /\ cur[c].op = "current_version"
                      => out[c].opt = LatestVersion(Table(c)))

\* migrated_versions of a sole adapter returned {10, 20} from the rows 20, 10
\* and wrote nothing.
C19_Witness ==
    \E c \in Clients :
        /\ active = {c} /\ cur[c].op = "migrated_versions" /\ Succeeded(c)
        /\ out[c].set = {10, 20} /\ rows[Table(c)] = <<20, 10>>
        /\ ~wrote[c] /\ txn[c] = EmptyTxn

====
